---- MODULE Spec2Model ----
(***************************************************************************)
(* Finisher: tokenizer / spell checker / auto completer over a dict or a   *)
(* Redis storage adapter (src/finisher/autocompleter.py).                  *)
(*                                                                         *)
(* Python strings are TLA+ strings (sequences of characters); a character  *)
(* is a string of length 1.  The state is the storage the objects share:   *)
(* the tests build a fresh object around the same dict / Redis client for  *)
(* every call, so an action is "construct an object with a configuration   *)
(* and call one method".  Scores are Python floats in the code; the model  *)
(* keeps them as exact fractions <<numerator, denominator>>.               *)
(***************************************************************************)
EXTENDS Integers, Sequences, FiniteSets, TLC

VARIABLES
    backend,          \* "dict" or "redis": which storage adapter the objects use
    min_n_gram_size,  \* AbstractTokenizer.min_n_gram_size of the objects
    cls_cache,        \* DictStorage*._cls_cache: attr_key -> dict
    redis,            \* the Redis keyspace: key -> set of strings, or integer
    log,              \* the mutating calls made since construction or the last
                      \* spell-checker bust_cache, oldest first
    ret,              \* the last call: its name, arguments and outcome
    trainers,         \* the train_from_strings calls that run concurrently: for
                      \* each, the store it is at, its corpus, and what its test
                      \* of `attr_key not in self._cls_cache` found
    store_steps_atomic \* whether a _store_* call of the dict adapter runs as one
                      \* step; a Redis pipeline always does

vars == <<backend, min_n_gram_size, cls_cache, redis, log, ret, trainers,
          store_steps_atomic>>

----------------------------------------------------------------------------
(* Bounds of the model. *)

\* mutating calls (train_from_strings, tokenizer bust_cache) kept in log
MaxCalls == 2

----------------------------------------------------------------------------
(* Characters and Python's str methods. *)

alphabet == "abcdefghijklmnopqrstuvwxyz"

uppercase == "ABCDEFGHIJKLMNOPQRSTUVWXYZ"

digits == "0123456789"

Char(s, i) == SubSeq(s, i, i)

IndexOf(ch, s) == CHOOSE i \in 1..Len(s) : Char(s, i) = ch

InStr(ch, s) == \E i \in 1..Len(s) : Char(s, i) = ch

\* ch.lower()
lower_ch(ch) == IF InStr(ch, uppercase) THEN Char(alphabet, IndexOf(ch, uppercase)) ELSE ch

\* s.lower()
RECURSIVE lower(_)
lower(s) == IF s = "" THEN "" ELSE lower_ch(Head(s)) \o lower(Tail(s))

\* ch.isalnum()
isalnum(ch) == InStr(ch, alphabet) \/ InStr(ch, uppercase) \/ InStr(ch, digits)

\* s.replace(" ", "")
RECURSIVE remove_spaces(_)
remove_spaces(s) ==
    IF s = "" THEN ""
    ELSE (IF Head(s) = " " THEN "" ELSE Head(s)) \o remove_spaces(Tail(s))

\* s.split(): the maximal runs of non-space characters, in order
RECURSIVE split_from(_, _, _)
split_from(s, i, cur) ==
    IF i > Len(s) THEN (IF cur = "" THEN <<>> ELSE <<cur>>)
    ELSE IF Char(s, i) = " "
         THEN (IF cur = "" THEN <<>> ELSE <<cur>>) \o split_from(s, i + 1, "")
         ELSE split_from(s, i + 1, cur \o Char(s, i))

split(s) == split_from(s, 1, "")

\* re.findall('[a-z]+', s): the maximal runs of lowercase letters, in order
RECURSIVE findall_alpha(_, _, _)
findall_alpha(s, i, cur) ==
    IF i > Len(s) THEN (IF cur = "" THEN <<>> ELSE <<cur>>)
    ELSE IF ~InStr(Char(s, i), alphabet)
         THEN (IF cur = "" THEN <<>> ELSE <<cur>>) \o findall_alpha(s, i + 1, "")
         ELSE findall_alpha(s, i + 1, cur \o Char(s, i))

Range(seq) == {seq[i] : i \in 1..Len(seq)}

\* a dict with no key
EmptyDict == [k \in {} |-> {}]

\* Python's None, as a value that no set of tokens or strings equals
None == {"<None>"}

\* an outcome of a call: the exception raised ("none" when it returns) and the value
Return(v) == [exc |-> "none", val |-> v]

Raise(e) == [exc |-> e, val |-> None]

----------------------------------------------------------------------------
(* AbstractTokenizer *)

RECURSIVE _to_alpha_numeric(_)
_to_alpha_numeric(input_string) ==
    IF input_string = "" THEN ""
    ELSE LET ch == Head(input_string)
         IN  (IF isalnum(ch) \/ ch = " " THEN lower_ch(ch) ELSE "")
                 \o _to_alpha_numeric(Tail(input_string))

\* the tokens of one training string (lines 59-60)
tokens_of(input_string) == Range(split(_to_alpha_numeric(input_string)))

\* the n-grams one token is stored under (lines 63-67)
n_grams_of(token, min_size) ==
    (IF Len(token) < min_size THEN {token} ELSE {})
        \cup {SubSeq(token, 1, string_size) : string_size \in min_size..Len(token)}

\* mutant of token_to_full_string_of: the full string is stored as given, not lowercased
token_to_full_string_of_raw(input_string_list) ==
    LET strs == Range(input_string_list)
        toks == UNION {tokens_of(s) : s \in strs}
    IN  [token \in toks |-> {x \in strs : token \in tokens_of(x)}]

\* token_to_full_string of train_from_strings (lines 55-62)
token_to_full_string_of(input_string_list) ==
    LET strs == Range(input_string_list)
        toks == UNION {tokens_of(s) : s \in strs}
    IN  [token \in toks |-> {lower(s) : s \in {x \in strs : token \in tokens_of(x)}}]

\* n_gram_to_tokens of train_from_strings (lines 56-67)
n_gram_to_tokens_of(input_string_list, min_size) ==
    LET toks == UNION {tokens_of(s) : s \in Range(input_string_list)}
        keys == UNION {n_grams_of(t, min_size) : t \in toks}
    IN  [n_gram \in keys |-> {t \in toks : n_gram \in n_grams_of(t, min_size)}]

----------------------------------------------------------------------------
(* AbstractSpellChecker: training *)

\* mutant of _to_alpha_words_list: the words are matched with [a-z0-9]+
RECURSIVE findall_alnum(_, _, _)
findall_alnum(s, i, cur) ==
    IF i > Len(s) THEN (IF cur = "" THEN <<>> ELSE <<cur>>)
    ELSE IF ~(InStr(Char(s, i), alphabet) \/ InStr(Char(s, i), digits))
         THEN (IF cur = "" THEN <<>> ELSE <<cur>>) \o findall_alnum(s, i + 1, "")
         ELSE findall_alnum(s, i + 1, cur \o Char(s, i))

_to_alpha_words_list_alnum(text) == findall_alnum(lower(text), 1, "")

_to_alpha_words_list(text) == findall_alpha(lower(text), 1, "")

\* how many times x occurs in the sequence seq
RECURSIVE occurrences(_, _)
occurrences(x, seq) ==
    IF seq = <<>> THEN 0
    ELSE (IF Head(seq) = x THEN 1 ELSE 0) + occurrences(x, Tail(seq))

\* the Counter of train_from_strings (lines 133-137)
RECURSIVE count_in_strings(_, _)
count_in_strings(token, input_string_list) ==
    IF input_string_list = <<>> THEN 0
    ELSE occurrences(token, _to_alpha_words_list(Head(input_string_list)))
             + count_in_strings(token, Tail(input_string_list))

token_to_count_of(input_string_list) ==
    LET words == UNION {Range(_to_alpha_words_list(s)) : s \in Range(input_string_list)}
    IN  [token \in words |-> count_in_strings(token, input_string_list)]

----------------------------------------------------------------------------
(* Python dicts *)

\* d[k] = v
SetKey(d, k, v) == [x \in DOMAIN d \cup {k} |-> IF x = k THEN v ELSE d[x]]

\* del d[k] for every k of keys
DelKeys(d, keys) == [x \in DOMAIN d \ keys |-> d[x]]

\* d.get(k, default)
dict_get(d, k, default) == IF k \in DOMAIN d THEN d[k] ELSE default

----------------------------------------------------------------------------
(* DictStorageTokenizer, DictStorageSpellChecker: the stores *)

\* the else branch of the three _store_* methods: merge new_dict into the stored
\* dict, key by key; join(old, new) is |= for the sets and += for the counts
\* mutant of Dict_merge_sets: the stored dict is replaced, not merged into
Dict_merge_replacing(cache, attr_key, new_dict) == SetKey(cache, attr_key, new_dict)

Dict_merge_sets(cache, attr_key, new_dict) ==
    LET old == cache[attr_key]
    IN  SetKey(cache, attr_key,
               [k \in DOMAIN old \cup DOMAIN new_dict |->
                   IF k \notin DOMAIN new_dict THEN old[k]
                   ELSE IF k \in DOMAIN old THEN old[k] \cup new_dict[k]
                   ELSE new_dict[k]])

\* mutant of Dict_merge_counts: = in the place of += at line 291
Dict_merge_counts_overwriting(cache, attr_key, new_dict) ==
    LET old == cache[attr_key]
    IN  SetKey(cache, attr_key,
               [k \in DOMAIN old \cup DOMAIN new_dict |->
                   IF k \notin DOMAIN new_dict THEN old[k] ELSE new_dict[k]])

Dict_merge_counts(cache, attr_key, new_dict) ==
    LET old == cache[attr_key]
    IN  SetKey(cache, attr_key,
               [k \in DOMAIN old \cup DOMAIN new_dict |->
                   IF k \notin DOMAIN new_dict THEN old[k]
                   ELSE IF k \in DOMAIN old THEN old[k] + new_dict[k]
                   ELSE new_dict[k]])

Dict_store_token_to_full_string(cache, token_to_full_string_dict) ==
    IF "token_to_full_string" \notin DOMAIN cache
    THEN SetKey(cache, "token_to_full_string", token_to_full_string_dict)
    ELSE Dict_merge_sets(cache, "token_to_full_string", token_to_full_string_dict)

Dict_store_n_gram_to_tokens(cache, n_gram_to_tokens_dict) ==
    IF "n_gram_to_tokens" \notin DOMAIN cache
    THEN SetKey(cache, "n_gram_to_tokens", n_gram_to_tokens_dict)
    ELSE Dict_merge_sets(cache, "n_gram_to_tokens", n_gram_to_tokens_dict)

Dict_store_token_to_count(cache, token_to_count_dict) ==
    IF "token_to_count" \notin DOMAIN cache
    THEN SetKey(cache, "token_to_count", token_to_count_dict)
    ELSE Dict_merge_counts(cache, "token_to_count", token_to_count_dict)

\* deletes every key of the shared dict, token_to_count included
Dict_clear_tokenizer_storage(cache) == DelKeys(cache, DOMAIN cache)

\* empties the token_to_count dict and keeps its key; nothing when the key is absent
Dict_clear_spellcheck_storage(cache) ==
    IF "token_to_count" \in DOMAIN cache
    THEN SetKey(cache, "token_to_count", EmptyDict)
    ELSE cache

----------------------------------------------------------------------------
(* Redis commands, on a keyspace r: key -> value *)

smembers(r, key) == IF key \in DOMAIN r THEN r[key] ELSE {}

scard(r, key) == Cardinality(smembers(r, key))

\* GET key as an integer, 0 standing for the None of an absent key
get_int(r, key) == IF key \in DOMAIN r THEN r[key] ELSE 0

----------------------------------------------------------------------------
(* RedisStorageTokenizer, RedisStorageSpellChecker: the stores *)

\* the pipeline of _store_token_to_full_string and _store_n_gram_to_tokens: for every
\* key of new_dict, SADD prefix+key each member, and SADD registry key
Redis_store_sets(r, prefix, registry, new_dict) ==
    LET member_keys == {prefix \o key : key \in {k \in DOMAIN new_dict : new_dict[k] # {}}}
        touched == member_keys \cup (IF DOMAIN new_dict = {} THEN {} ELSE {registry})
    IN  [key \in DOMAIN r \cup touched |->
            IF key = registry /\ key \in touched
                THEN smembers(r, registry) \cup DOMAIN new_dict
            ELSE IF key \in member_keys
                THEN smembers(r, key) \cup new_dict[SubSeq(key, Len(prefix) + 1, Len(key))]
            ELSE r[key]]

Redis_store_token_to_full_string(r, token_to_full_string_dict) ==
    Redis_store_sets(r, "token:", "token_to_full_string_keys", token_to_full_string_dict)

Redis_store_n_gram_to_tokens(r, n_gram_to_tokens_dict) ==
    Redis_store_sets(r, "n_gram:", "n_gram_to_token_key", n_gram_to_tokens_dict)

\* the pipeline of lines 392-397: INCRBY count:token count, and SADD the registry
\* mutant of Redis_store_token_to_count: SET in the place of INCRBY at line 395
Redis_store_token_to_count_set(r, token_to_count_dict) ==
    LET count_keys == {"count:" \o token : token \in DOMAIN token_to_count_dict}
        touched == count_keys
                     \cup (IF DOMAIN token_to_count_dict = {} THEN {}
                           ELSE {"token_to_count_key"})
    IN  [key \in DOMAIN r \cup touched |->
            IF key = "token_to_count_key" /\ key \in touched
                THEN smembers(r, "token_to_count_key") \cup DOMAIN token_to_count_dict
            ELSE IF key \in count_keys
                THEN token_to_count_dict[SubSeq(key, 7, Len(key))]
            ELSE r[key]]

Redis_store_token_to_count(r, token_to_count_dict) ==
    LET count_keys == {"count:" \o token : token \in DOMAIN token_to_count_dict}
        touched == count_keys
                     \cup (IF DOMAIN token_to_count_dict = {} THEN {}
                           ELSE {"token_to_count_key"})
    IN  [key \in DOMAIN r \cup touched |->
            IF key = "token_to_count_key" /\ key \in touched
                THEN smembers(r, "token_to_count_key") \cup DOMAIN token_to_count_dict
            ELSE IF key \in count_keys
                THEN get_int(r, key) + token_to_count_dict[SubSeq(key, 7, Len(key))]
            ELSE r[key]]

\* expire(prefix + key, 0) for every key of the registry set, then the registry
Redis_clear(r, prefix, registry) ==
    DelKeys(r, {prefix \o key : key \in smembers(r, registry)} \cup {registry})

Redis_clear_tokenizer_storage(r) ==
    Redis_clear(Redis_clear(r, "token:", "token_to_full_string_keys"),
                "n_gram:", "n_gram_to_token_key")

Redis_clear_spellcheck_storage(r) == Redis_clear(r, "count:", "token_to_count_key")

----------------------------------------------------------------------------
(* The read accessors of the two adapters *)

Dict_get_full_strings_for_token(cache, token, default_empty) ==
    IF "token_to_full_string" \in DOMAIN cache
    THEN Return(dict_get(cache["token_to_full_string"], token, default_empty))
    ELSE Raise("RequiresTraining")

Dict_get_tokens_for_n_gram(cache, n_gram, default_empty) ==
    IF "n_gram_to_tokens" \in DOMAIN cache
    THEN Return(dict_get(cache["n_gram_to_tokens"], n_gram, default_empty))
    ELSE Raise("RequiresTraining")

\* the subscript of line 273 is outside any try: an absent key is a KeyError
Dict_get_counts_for_tokens(cache, token_list, default_empty) ==
    IF "token_to_count" \notin DOMAIN cache THEN Raise("KeyError")
    ELSE IF DOMAIN cache["token_to_count"] = {} THEN Raise("RequiresTraining")
    ELSE Return([token \in token_list |->
                    dict_get(cache["token_to_count"], token, default_empty)])

Dict_get_count_for_token(cache, token, default_empty) ==
    IF "token_to_count" \in DOMAIN cache
    THEN Return(dict_get(cache["token_to_count"], token, default_empty))
    ELSE Raise("RequiresTraining")

\* x or default_empty, for a set x
set_or(x, default_empty) == IF x = {} THEN default_empty ELSE x

Redis_get_full_strings_for_token(r, token, default_empty) ==
    IF scard(r, "token_to_full_string_keys") = 0 THEN Raise("RequiresTraining")
    ELSE Return(set_or(smembers(r, "token:" \o token), default_empty))

Redis_get_tokens_for_n_gram(r, n_gram, default_empty) ==
    IF scard(r, "n_gram_to_token_key") = 0 THEN Raise("RequiresTraining")
    ELSE Return(set_or(smembers(r, "n_gram:" \o n_gram), default_empty))

\* default_empty is an integer in every call of the code, so int() does not raise
Redis_get_counts_for_tokens(r, token_list, default_empty) ==
    IF scard(r, "token_to_count_key") = 0 THEN Raise("RequiresTraining")
    ELSE Return([token \in token_list |-> get_int(r, "count:" \o token)])

Redis_get_count_for_token(r, token, default_empty) ==
    IF scard(r, "token_to_count_key") = 0 THEN Raise("RequiresTraining")
    ELSE Return(IF ("count:" \o token) \in DOMAIN r THEN r["count:" \o token]
                ELSE default_empty)

get_full_strings_for_token(token, default_empty) ==
    IF backend = "dict"
    THEN Dict_get_full_strings_for_token(cls_cache, token, default_empty)
    ELSE Redis_get_full_strings_for_token(redis, token, default_empty)

get_tokens_for_n_gram(n_gram, default_empty) ==
    IF backend = "dict"
    THEN Dict_get_tokens_for_n_gram(cls_cache, n_gram, default_empty)
    ELSE Redis_get_tokens_for_n_gram(redis, n_gram, default_empty)

get_counts_for_tokens(token_list, default_empty) ==
    IF backend = "dict"
    THEN Dict_get_counts_for_tokens(cls_cache, token_list, default_empty)
    ELSE Redis_get_counts_for_tokens(redis, token_list, default_empty)

get_count_for_token(token, default_empty) ==
    IF backend = "dict"
    THEN Dict_get_count_for_token(cls_cache, token, default_empty)
    ELSE Redis_get_count_for_token(redis, token, default_empty)

----------------------------------------------------------------------------
(* AbstractSpellChecker: correction *)

\* word[:i] and word[i:]
prefix_of(word, i) == SubSeq(word, 1, i)

suffix_of(word, i) == SubSeq(word, i + 1, Len(word))

_possible_typos(word) ==
    LET n        == Len(word)
        letters  == {Char(alphabet, k) : k \in 1..Len(alphabet)}
        deletes  == {prefix_of(word, i) \o suffix_of(word, i + 1) : i \in 0..(n - 1)}
        transposes ==
            {prefix_of(word, i) \o Char(word, i + 2) \o Char(word, i + 1)
                 \o suffix_of(word, i + 2) : i \in 0..(n - 2)}
        replaces ==
            UNION {{prefix_of(word, i) \o c \o suffix_of(word, i + 1) : c \in letters}
                       : i \in 0..(n - 1)}
        inserts  ==
            UNION {{prefix_of(word, i) \o c \o suffix_of(word, i) : c \in letters}
                       : i \in 0..n}
    IN  deletes \cup transposes \cup replaces \cup inserts

\* all_deviations of _extended_typos after `rounds` more rounds (lines 116-121)
RECURSIVE all_deviations_of(_, _, _)
all_deviations_of(deviations, all_deviations, rounds) ==
    IF rounds <= 0 THEN all_deviations
    ELSE LET next == UNION {_possible_typos(deviation) : deviation \in deviations}
         IN  all_deviations_of(next, all_deviations \cup next, rounds - 1)

\* all_deviations for the words the model runs a second round on, computed once:
\* it depends on the word alone, and TLC evaluates a constant definition one time
MemoWords == {"ab", "xy", "cd"}

all_deviations_memo ==
    {<<w, all_deviations_of(_possible_typos(w), _possible_typos(w), 1)>> : w \in MemoWords}

_extended_typos(word, typo_deviations) ==
    LET deviations         == _possible_typos(word)
        all_deviations     ==
            IF typo_deviations = 2 /\ word \in MemoWords
            THEN (CHOOSE m \in all_deviations_memo : m[1] = word)[2]
            ELSE all_deviations_of(deviations, deviations, typo_deviations - 1)
        deviation_to_count == get_counts_for_tokens(all_deviations, 0)
    IN  IF deviation_to_count.exc # "none" THEN Raise(deviation_to_count.exc)
        ELSE Return({deviation \in all_deviations : deviation_to_count.val[deviation] # 0})

\* a raise of get_count_for_token needs a word to look up
_words_that_exist(words) ==
    IF words # {} /\ get_count_for_token(CHOOSE w \in words : TRUE, 0).exc # "none"
    THEN Raise(get_count_for_token(CHOOSE w \in words : TRUE, 0).exc)
    ELSE Return({w \in words : get_count_for_token(w, 0).val # 0})

\* max(candidates, key=self.get_count_for_token): every candidate of maximal count,
\* the winner among equals being the first in an iteration order the code does not fix
max_by_count(candidates) ==
    {c \in candidates :
        \A d \in candidates : get_count_for_token(d, 0).val <= get_count_for_token(c, 0).val}

\* mutant of corrected: the candidates one edit away and those further away are
\* pooled before the max
corrected_over_all_deviations(token, typo_deviations) ==
    LET exact == _words_that_exist({token})
    IN  IF exact.exc # "none" THEN {Raise(exact.exc)}
        ELSE IF exact.val # {} THEN {Return(c) : c \in max_by_count(exact.val)}
        ELSE LET near == _words_that_exist(_possible_typos(token))
                 far  == _extended_typos(token, typo_deviations)
             IN  IF near.exc # "none" THEN {Raise(near.exc)}
                 ELSE IF far.exc # "none" THEN {Raise(far.exc)}
                 ELSE IF near.val \cup far.val # {}
                      THEN {Return(c) : c \in max_by_count(near.val \cup far.val)}
                 ELSE {Return(token)}

\* lines 145-149: the candidates and the max over them; the outcomes are several
\* on a tie of max
corrected(token, typo_deviations) ==
    LET exact == _words_that_exist({token})
    IN  IF exact.exc # "none" THEN {Raise(exact.exc)}
        ELSE IF exact.val # {} THEN {Return(c) : c \in max_by_count(exact.val)}
        ELSE LET near == _words_that_exist(_possible_typos(token))
             IN  IF near.exc # "none" THEN {Raise(near.exc)}
                 ELSE IF near.val # {} THEN {Return(c) : c \in max_by_count(near.val)}
                 ELSE LET far == _extended_typos(token, typo_deviations)
                      IN  IF far.exc # "none" THEN {Raise(far.exc)}
                          ELSE IF far.val # {}
                               THEN {Return(c) : c \in max_by_count(far.val)}
                          ELSE {Return(token)}

\* mutant of correct_token: no early return for a token that is a known n-gram
correct_token_without_shortcut(input_token, typo_deviations) ==
    LET token == lower(input_token)
        known == get_tokens_for_n_gram(token, None)
    IN  IF known.exc # "none" THEN {Raise(known.exc)}
        ELSE corrected(token, typo_deviations)

\* the outcomes correct_token can have
correct_token(input_token, typo_deviations) ==
    LET token == lower(input_token)
        known == get_tokens_for_n_gram(token, None)
    IN  IF known.exc # "none" THEN {Raise(known.exc)}
        ELSE IF known.val # None THEN {Return(token)}
        ELSE corrected(token, typo_deviations)

----------------------------------------------------------------------------
(* AbstractAutoCompleter *)

\* a score is a fraction <<numerator, denominator>>, denominator > 0
score_ge(a, b) == a[1] * b[2] >= b[1] * a[2]

score_is_one(a) == a[1] = a[2]

RECURSIVE sum_of_lengths(_)
sum_of_lengths(tokens) ==
    IF tokens = {} THEN 0
    ELSE LET t == CHOOSE x \in tokens : TRUE
         IN  Len(t) + sum_of_lengths(tokens \ {t})

\* the first exception an accessor raises over the items, "none" when none does
first_exc(outcomes) ==
    IF \E o \in outcomes : o.exc # "none"
    THEN (CHOOSE o \in outcomes : o.exc # "none").exc
    ELSE "none"

_get_real_tokens_from_possible_n_grams(tokens) ==
    LET looked == {get_tokens_for_n_gram(tokens[i], {}) : i \in 1..Len(tokens)}
    IN  IF first_exc(looked) # "none" THEN Raise(first_exc(looked))
        ELSE Return(UNION {o.val : o \in looked})

\* the (full_string, token) pairs scored by _get_scored_strings_uncollapsed; the
\* score of a pair is len(token) / len(full_string.replace(" ", ""))
_get_scored_strings_uncollapsed(real_tokens) ==
    LET looked == {get_full_strings_for_token(token, {}) : token \in real_tokens}
    IN  IF first_exc(looked) # "none" THEN Raise(first_exc(looked))
        ELSE Return(UNION {{<<full_string, token>> :
                               full_string \in get_full_strings_for_token(token, {}).val}
                              : token \in real_tokens})

\* collapsed_string_to_occurence[full_string]
occurrence_of(pairs, full_string) == Cardinality({p \in pairs : p[1] = full_string})

\* collapsed_string_to_score[full_string] after the loop of lines 190-192: the sum
\* of len(token) / L over the pairs, times occurrence / num_tokens
combined_score(pairs, full_string, num_tokens) ==
    <<sum_of_lengths({p[2] : p \in {q \in pairs : q[1] = full_string}})
          * occurrence_of(pairs, full_string),
      Len(remove_spaces(full_string)) * num_tokens>>

\* a string is scored only when a pair names it, and a pair comes from an input
\* token, so num_tokens = 0 never reaches the division of line 191
_combined_scores(pairs, num_tokens) ==
    IF pairs # {} /\ num_tokens = 0 THEN Raise("ZeroDivisionError")
    ELSE Return([full_string \in {p[1] : p \in pairs} |->
                    combined_score(pairs, full_string, num_tokens)])

\* the orders .sort(key=score, reverse=True) can leave the items in: descending by
\* score, equal scores in the order of the dict's items, which the code does not fix
\* mutant of sorted_descending: reverse=True is left out
sorted_ascending(scores) ==
    LET RECURSIVE orders(_)
        orders(keys) ==
            IF keys = {} THEN {<<>>}
            ELSE UNION {{<<<<m, scores[m]>>>> \o rest : rest \in orders(keys \ {m})}
                           : m \in {k \in keys :
                                       \A o \in keys : score_ge(scores[o], scores[k])}}
    IN  orders(DOMAIN scores)

sorted_descending(scores) ==
    LET RECURSIVE orders(_)
        orders(keys) ==
            IF keys = {} THEN {<<>>}
            ELSE UNION {{<<<<m, scores[m]>>>> \o rest : rest \in orders(keys \ {m})}
                           : m \in {k \in keys :
                                       \A o \in keys : score_ge(scores[k], scores[o])}}
    IN  orders(DOMAIN scores)

\* seq[:n] for n >= 0
take(seq, n) == SubSeq(seq, 1, IF n < Len(seq) THEN n ELSE Len(seq))

\* mutant of _filtered_results: the padding is taken from the thresholded list
_filtered_results_padding_filtered(full_string__scores, cfg) ==
    LET exact == full_string__scores # <<>> /\ score_is_one(full_string__scores[1][2])
        min_len == Len(full_string__scores[1][1])
        long_enough(tuple_obj) == Len(tuple_obj[1]) >= min_len
        kept == IF exact THEN SelectSeq(full_string__scores, long_enough)
                ELSE full_string__scores
        within(tuple_obj) == score_ge(tuple_obj[2], cfg.score_threshold)
        possibles_within_thresh == SelectSeq(kept, within)
        min_possibles ==
            IF Len(possibles_within_thresh) > cfg.min_results
            THEN take(possibles_within_thresh, cfg.max_results)
            ELSE take(possibles_within_thresh, cfg.min_results)
    IN  [i \in 1..Len(min_possibles) |-> min_possibles[i][1]]

\* mutant of _filtered_results: no length filter on an exact match
_filtered_results_no_length_filter(full_string__scores, cfg) ==
    LET max_possibles == take(full_string__scores, cfg.max_results)
        within(tuple_obj) == score_ge(tuple_obj[2], cfg.score_threshold)
        possibles_within_thresh == SelectSeq(full_string__scores, within)
        min_possibles ==
            IF Len(possibles_within_thresh) > cfg.min_results
            THEN take(possibles_within_thresh, cfg.max_results)
            ELSE take(max_possibles, cfg.min_results)
    IN  [i \in 1..Len(min_possibles) |-> min_possibles[i][1]]

_filtered_results(full_string__scores, cfg) ==
    LET max_possibles == take(full_string__scores, cfg.max_results)
        exact == full_string__scores # <<>> /\ score_is_one(full_string__scores[1][2])
        min_len == Len(full_string__scores[1][1])
        long_enough(tuple_obj) == Len(tuple_obj[1]) >= min_len
        kept == IF exact THEN SelectSeq(full_string__scores, long_enough)
                ELSE full_string__scores
        within(tuple_obj) == score_ge(tuple_obj[2], cfg.score_threshold)
        possibles_within_thresh == SelectSeq(kept, within)
        min_possibles ==
            IF Len(possibles_within_thresh) > cfg.min_results
            THEN take(possibles_within_thresh, cfg.max_results)
            ELSE take(max_possibles, cfg.min_results)
    IN  [i \in 1..Len(min_possibles) |-> min_possibles[i][1]]

\* what guess_full_strings leaves behind besides its result
NoLocals == [sorted |-> <<>>, pairs |-> {}]

\* the outcomes guess_full_strings can have, each with the locals it went through
guess_full_strings(token_list, cfg) ==
    LET real_tokens == _get_real_tokens_from_possible_n_grams(token_list)
    IN  IF real_tokens.exc # "none" THEN {[out |-> Raise(real_tokens.exc), locals |-> NoLocals]}
        ELSE LET uncollapsed == _get_scored_strings_uncollapsed(real_tokens.val)
             IN  IF uncollapsed.exc # "none"
                 THEN {[out |-> Raise(uncollapsed.exc), locals |-> NoLocals]}
                 ELSE LET collapsed == _combined_scores(uncollapsed.val, Len(token_list))
                      IN  IF collapsed.exc # "none"
                          THEN {[out |-> Raise(collapsed.exc), locals |-> NoLocals]}
                          ELSE {[out    |-> Return(_filtered_results(order, cfg)),
                                 locals |-> [sorted |-> order, pairs |-> uncollapsed.val]]
                                    : order \in sorted_descending(collapsed.val)}

----------------------------------------------------------------------------
(* train_from_strings and bust_cache, on the storage st = [cache, r] of backend b *)

Tokenizer_train_from_strings(b, st, input_string_list, min_size) ==
    LET token_to_full_string == token_to_full_string_of(input_string_list)
        n_gram_to_tokens     == n_gram_to_tokens_of(input_string_list, min_size)
    IN  IF b = "dict"
        THEN [st EXCEPT !.cache =
                 Dict_store_n_gram_to_tokens(
                     Dict_store_token_to_full_string(@, token_to_full_string),
                     n_gram_to_tokens)]
        ELSE [st EXCEPT !.r =
                 Redis_store_n_gram_to_tokens(
                     Redis_store_token_to_full_string(@, token_to_full_string),
                     n_gram_to_tokens)]

SpellChecker_train_from_strings(b, st, input_string_list, min_size) ==
    LET super == Tokenizer_train_from_strings(b, st, input_string_list, min_size)
        token_to_count == token_to_count_of(input_string_list)
    IN  IF b = "dict"
        THEN [super EXCEPT !.cache = Dict_store_token_to_count(@, token_to_count)]
        ELSE [super EXCEPT !.r = Redis_store_token_to_count(@, token_to_count)]

Tokenizer_bust_cache(b, st) ==
    IF b = "dict"
    THEN [st EXCEPT !.cache = Dict_clear_tokenizer_storage(@)]
    ELSE [st EXCEPT !.r = Redis_clear_tokenizer_storage(@)]

SpellChecker_bust_cache(b, st) ==
    LET super == Tokenizer_bust_cache(b, st)
    IN  IF b = "dict"
        THEN [super EXCEPT !.cache = Dict_clear_spellcheck_storage(@)]
        ELSE [super EXCEPT !.r = Redis_clear_spellcheck_storage(@)]

----------------------------------------------------------------------------
(* The inputs the calls are made with *)

\* the constructor defaults of line 162, and smaller configurations
DefaultConfig == [min_results |-> 5, max_results |-> 10, score_threshold |-> <<1, 5>>]

TightConfig == [min_results |-> 1, max_results |-> 3, score_threshold |-> <<1, 5>>]

PadConfig == [min_results |-> 2, max_results |-> 3, score_threshold |-> <<1, 5>>]

InvertedConfig == [min_results |-> 2, max_results |-> 1, score_threshold |-> <<1, 5>>]

\* min_n_gram_size: the default of line 21 and the 3 of sample_usage.py
MinNGramSizes == {1, 3}

\* the corpus of test_spell_check and test_integration
ScenarioCorpus == <<"hey there world", "hello Commrades", "hello world">>

Corpora ==
    {<<>>, <<"99">>, ScenarioCorpus, <<"ab ad">>, <<"ab ad 42", "Ab!">>}

AccessorInputs == {"ab", "hello"}

\* correct_token is called with a token on an object of the given typo_deviations
\* (2 is the default of line 77); the second round of _extended_typos is run on
\* the two-letter tokens only
CorrectTokenCalls ==
    {<<"Hello", 1>>, <<"99", 1>>, <<"hye", 1>>, <<"wrld", 1>>, <<"a", 1>>,
     <<"ab", 2>>, <<"xy", 2>>, <<"cd", 2>>}

\* guess_full_strings is called with a token list on an object of a configuration
GuessCalls ==
    {<<<<>>, DefaultConfig>>,
     <<<<"zz">>, DefaultConfig>>,
     <<<<"hello", "world">>, DefaultConfig>>,
     <<<<"hello", "world">>, PadConfig>>,
     <<<<"hey", "world">>, DefaultConfig>>,
     <<<<"a">>, DefaultConfig>>,
     <<<<"ab", "ad">>, DefaultConfig>>,
     <<<<"ab", "ad">>, TightConfig>>,
     <<<<"ab", "ad">>, InvertedConfig>>}

----------------------------------------------------------------------------
(* The state machine *)

Store == [cache |-> cls_cache, r |-> redis]

\* the record of a call: op(arg) on an object configured with cfg raised exc or
\* returned val
Call(op, arg, cfg, out, locals) ==
    [op |-> op, arg |-> arg, cfg |-> cfg, exc |-> out.exc, val |-> out.val,
     locals |-> locals]

\* the calls that read the storage and leave it as it is
ReadOps ==
    {"get_tokens_for_n_gram", "get_full_strings_for_token", "get_count_for_token",
     "get_counts_for_tokens", "correct_token", "guess_full_strings"}

\* A read changes nothing but ret, and every call overwrites ret: the calls that
\* can follow a read, and the states they lead to, are those that could have been
\* made in its place.  A behaviour is therefore followed up to its first read,
\* which leaves the set of reachable states as it is.
NoReadYet == ret.op \notin ReadOps

\* the two callers that may train concurrently
Trainers == {"A", "B"}

\* no train_from_strings call is under way
NotRunning == [p \in Trainers |-> [pc |-> "idle", arg |-> <<>>, tested |-> FALSE,
                                   absent |-> FALSE]]

Init ==
    /\ backend \in {"dict", "redis"}
    /\ min_n_gram_size \in MinNGramSizes
    /\ cls_cache = EmptyDict
    /\ redis = EmptyDict
    /\ log = <<>>
    /\ ret = Call("__init__", <<>>, DefaultConfig, Return(None), NoLocals)
    /\ trainers = NotRunning
    /\ store_steps_atomic = TRUE

TokenizerTrainFromStrings(input_string_list) ==
    /\ NoReadYet
    /\ Len(log) < MaxCalls
    /\ LET st == Tokenizer_train_from_strings(backend, Store, input_string_list,
                                              min_n_gram_size)
       IN  cls_cache' = st.cache /\ redis' = st.r
    /\ log' = Append(log, [op |-> "train_from_strings", cls |-> "Tokenizer",
                           arg |-> input_string_list])
    /\ ret' = Call("train_from_strings", input_string_list, DefaultConfig,
                   Return(None), NoLocals)
    /\ UNCHANGED <<backend, min_n_gram_size, trainers, store_steps_atomic>>

SpellCheckerTrainFromStrings(input_string_list) ==
    /\ NoReadYet
    /\ Len(log) < MaxCalls
    /\ LET st == SpellChecker_train_from_strings(backend, Store, input_string_list,
                                                 min_n_gram_size)
       IN  cls_cache' = st.cache /\ redis' = st.r
    /\ log' = Append(log, [op |-> "train_from_strings", cls |-> "SpellChecker",
                           arg |-> input_string_list])
    /\ ret' = Call("train_from_strings", input_string_list, DefaultConfig,
                   Return(None), NoLocals)
    /\ UNCHANGED <<backend, min_n_gram_size, trainers, store_steps_atomic>>

TokenizerBustCache ==
    /\ NoReadYet
    /\ Len(log) < MaxCalls
    /\ LET st == Tokenizer_bust_cache(backend, Store)
       IN  cls_cache' = st.cache /\ redis' = st.r
    /\ log' = Append(log, [op |-> "bust_cache", cls |-> "Tokenizer", arg |-> <<>>])
    /\ ret' = Call("bust_cache", <<>>, DefaultConfig, Return(None), NoLocals)
    /\ UNCHANGED <<backend, min_n_gram_size, trainers, store_steps_atomic>>

SpellCheckerBustCache ==
    /\ NoReadYet
    /\ LET st == SpellChecker_bust_cache(backend, Store)
       IN  cls_cache' = st.cache /\ redis' = st.r
    /\ log' = <<>>
    /\ ret' = Call("bust_cache", <<>>, DefaultConfig, Return(None), NoLocals)
    /\ UNCHANGED <<backend, min_n_gram_size, trainers, store_steps_atomic>>

GetTokensForNGram(n_gram) ==
    /\ NoReadYet
    /\ ret' = Call("get_tokens_for_n_gram", n_gram, DefaultConfig,
                   get_tokens_for_n_gram(n_gram, None), NoLocals)
    /\ UNCHANGED <<backend, min_n_gram_size, cls_cache, redis, log, trainers,
                   store_steps_atomic>>

GetFullStringsForToken(token) ==
    /\ NoReadYet
    /\ ret' = Call("get_full_strings_for_token", token, DefaultConfig,
                   get_full_strings_for_token(token, None), NoLocals)
    /\ UNCHANGED <<backend, min_n_gram_size, cls_cache, redis, log, trainers,
                   store_steps_atomic>>

GetCountForToken(token) ==
    /\ NoReadYet
    /\ ret' = Call("get_count_for_token", token, DefaultConfig,
                   get_count_for_token(token, 0), NoLocals)
    /\ UNCHANGED <<backend, min_n_gram_size, cls_cache, redis, log, trainers,
                   store_steps_atomic>>

GetCountsForTokens(token_list) ==
    /\ NoReadYet
    /\ ret' = Call("get_counts_for_tokens", token_list, DefaultConfig,
                   get_counts_for_tokens(token_list, 0), NoLocals)
    /\ UNCHANGED <<backend, min_n_gram_size, cls_cache, redis, log, trainers,
                   store_steps_atomic>>

CorrectToken(token, typo_deviations) ==
    /\ NoReadYet
    /\ \E out \in correct_token(token, typo_deviations) :
           ret' = Call("correct_token", token, [typo_deviations |-> typo_deviations],
                       out, NoLocals)
    /\ UNCHANGED <<backend, min_n_gram_size, cls_cache, redis, log, trainers,
                   store_steps_atomic>>

GuessFullStrings(token_list, cfg) ==
    /\ NoReadYet
    /\ \E g \in guess_full_strings(token_list, cfg) :
           ret' = Call("guess_full_strings", token_list, cfg, g.out, g.locals)
    /\ UNCHANGED <<backend, min_n_gram_size, cls_cache, redis, log, trainers,
                   store_steps_atomic>>

Next ==
    \/ \E c \in Corpora : TokenizerTrainFromStrings(c)
    \/ \E c \in Corpora : SpellCheckerTrainFromStrings(c)
    \/ TokenizerBustCache
    \/ SpellCheckerBustCache
    \/ \E x \in AccessorInputs : GetTokensForNGram(x)
    \/ \E x \in AccessorInputs : GetFullStringsForToken(x)
    \/ \E x \in AccessorInputs : GetCountForToken(x)
    \/ GetCountsForTokens(AccessorInputs)
    \/ \E call \in CorrectTokenCalls : CorrectToken(call[1], call[2])
    \/ \E call \in GuessCalls : GuessFullStrings(call[1], call[2])

Spec == Init /\ [][Next]_vars

----------------------------------------------------------------------------
(* Two spell-checker train_from_strings calls running concurrently on one   *)
(* backend.  A call makes its three stores in the order of lines 69, 70 and *)
(* 138.  A Redis store is one pipeline.execute(); a dict store is Python    *)
(* code another thread can interleave with, taken here either as one step   *)
(* or as the test of line 237 / 255 / 286 followed by the write.            *)

TrainerCorpora == {<<"ab ad">>, <<"ab ad 42", "Ab!">>, <<"99">>}

\* the store a call makes at pc: its attr_key, the dict it passes, the pc after
attr_key_at(pc) ==
    CASE pc = "string" -> "token_to_full_string"
      [] pc = "prefix" -> "n_gram_to_tokens"
      [] pc = "count"  -> "token_to_count"

new_dict_at(pc, input_string_list) ==
    CASE pc = "string" -> token_to_full_string_of(input_string_list)
      [] pc = "prefix" -> n_gram_to_tokens_of(input_string_list, min_n_gram_size)
      [] pc = "count"  -> token_to_count_of(input_string_list)

pc_after(pc) ==
    CASE pc = "string" -> "prefix"
      [] pc = "prefix" -> "count"
      [] pc = "count"  -> "done"

store_method_at(pc) ==
    CASE pc = "string" -> "_store_token_to_full_string"
      [] pc = "prefix" -> "_store_n_gram_to_tokens"
      [] pc = "count"  -> "_store_token_to_count"

\* the write of a dict store whose test found attr_key absent or present
Dict_write_after_test(cache, pc, new_dict, absent) ==
    IF absent THEN SetKey(cache, attr_key_at(pc), new_dict)
    ELSE IF pc = "count" THEN Dict_merge_counts(cache, attr_key_at(pc), new_dict)
    ELSE Dict_merge_sets(cache, attr_key_at(pc), new_dict)

Stored(p) ==
    /\ trainers' = [trainers EXCEPT ![p].pc = pc_after(@), ![p].tested = FALSE]
    /\ log' = Append(log, [op |-> store_method_at(trainers[p].pc), by |-> p])
    /\ UNCHANGED <<backend, min_n_gram_size, ret, store_steps_atomic>>

ConcurrentInit ==
    /\ backend \in {"dict", "redis"}
    /\ min_n_gram_size \in MinNGramSizes
    /\ cls_cache = EmptyDict
    /\ redis = EmptyDict
    /\ log = <<>>
    /\ ret = Call("__init__", <<>>, DefaultConfig, Return(None), NoLocals)
    /\ trainers \in [Trainers -> {[pc |-> "string", arg |-> c, tested |-> FALSE,
                                   absent |-> FALSE] : c \in TrainerCorpora}]
    /\ store_steps_atomic \in BOOLEAN
    /\ backend = "redis" => store_steps_atomic

StoreTokenToFullString(p) ==
    /\ store_steps_atomic
    /\ trainers[p].pc = "string"
    /\ LET st == Store
           d  == token_to_full_string_of(trainers[p].arg)
       IN  IF backend = "dict"
           THEN cls_cache' = Dict_store_token_to_full_string(st.cache, d)
                /\ redis' = st.r
           ELSE redis' = Redis_store_token_to_full_string(st.r, d)
                /\ cls_cache' = st.cache
    /\ Stored(p)

StoreNGramToTokens(p) ==
    /\ store_steps_atomic
    /\ trainers[p].pc = "prefix"
    /\ LET st == Store
           d  == n_gram_to_tokens_of(trainers[p].arg, min_n_gram_size)
       IN  IF backend = "dict"
           THEN cls_cache' = Dict_store_n_gram_to_tokens(st.cache, d)
                /\ redis' = st.r
           ELSE redis' = Redis_store_n_gram_to_tokens(st.r, d)
                /\ cls_cache' = st.cache
    /\ Stored(p)

StoreTokenToCount(p) ==
    /\ store_steps_atomic
    /\ trainers[p].pc = "count"
    /\ LET st == Store
           d  == token_to_count_of(trainers[p].arg)
       IN  IF backend = "dict"
           THEN cls_cache' = Dict_store_token_to_count(st.cache, d)
                /\ redis' = st.r
           ELSE redis' = Redis_store_token_to_count(st.r, d)
                /\ cls_cache' = st.cache
    /\ Stored(p)

\* `if attr_key not in self._cls_cache:` of a dict store
TestAttrKey(p) ==
    /\ ~store_steps_atomic
    /\ trainers[p].pc \in {"string", "prefix", "count"}
    /\ ~trainers[p].tested
    /\ trainers' = [trainers EXCEPT
                       ![p].tested = TRUE,
                       ![p].absent = attr_key_at(trainers[p].pc) \notin DOMAIN cls_cache]
    /\ UNCHANGED <<backend, min_n_gram_size, cls_cache, redis, log, ret,
                   store_steps_atomic>>

\* the branch of a dict store the test chose
WriteAfterTest(p) ==
    /\ ~store_steps_atomic
    /\ trainers[p].tested
    /\ cls_cache' = Dict_write_after_test(cls_cache, trainers[p].pc,
                                          new_dict_at(trainers[p].pc, trainers[p].arg),
                                          trainers[p].absent)
    /\ UNCHANGED redis
    /\ Stored(p)

ConcurrentNext ==
    \/ \E p \in Trainers : StoreTokenToFullString(p)
    \/ \E p \in Trainers : StoreNGramToTokens(p)
    \/ \E p \in Trainers : StoreTokenToCount(p)
    \/ \E p \in Trainers : TestAttrKey(p)
    \/ \E p \in Trainers : WriteAfterTest(p)

ConcurrentSpec == ConcurrentInit /\ [][ConcurrentNext]_vars

----------------------------------------------------------------------------
(* The three indices, as the storage of the backend in use holds them *)

\* the keys of PrefixIndex
PrefixIndexKeys ==
    IF backend = "dict"
    THEN (IF "n_gram_to_tokens" \in DOMAIN cls_cache
          THEN DOMAIN cls_cache["n_gram_to_tokens"] ELSE {})
    ELSE {SubSeq(k, 8, Len(k)) : k \in {x \in DOMAIN redis : SubSeq(x, 1, 7) = "n_gram:"}}

\* the keys of StringIndex
StringIndexKeys ==
    IF backend = "dict"
    THEN (IF "token_to_full_string" \in DOMAIN cls_cache
          THEN DOMAIN cls_cache["token_to_full_string"] ELSE {})
    ELSE {SubSeq(k, 7, Len(k)) : k \in {x \in DOMAIN redis : SubSeq(x, 1, 6) = "token:"}}

\* the count FrequencyIndex holds for a token, 0 when it holds none
FrequencyOf(token) ==
    IF backend = "dict"
    THEN (IF "token_to_count" \in DOMAIN cls_cache
          THEN dict_get(cls_cache["token_to_count"], token, 0) ELSE 0)
    ELSE get_int(redis, "count:" \o token)

\* the storage of an untrained backend
EmptyStore == [cache |-> EmptyDict, r |-> EmptyDict]

----------------------------------------------------------------------------
(* What the log says of the calls made *)

IsTrain(entry) == entry.op = "train_from_strings"

\* no train_from_strings since construction or the last spell-checker bust_cache
NeverTrained == \A i \in 1..Len(log) : ~IsTrain(log[i])

\* the last mutating call was the tokenizer's bust_cache
TokenizerJustBusted == log # <<>> /\ log[Len(log)].op = "bust_cache"

\* trained, and not reset since
Trained == log # <<>> /\ \A i \in 1..Len(log) : IsTrain(log[i])

\* every call of the log is a train_from_strings of class cls
AllTrainsOf(cls) == \A i \in 1..Len(log) : IsTrain(log[i]) /\ log[i].cls = cls

\* the corpora of the log, one after the other
RECURSIVE concat_args(_)
concat_args(entries) ==
    IF entries = <<>> THEN <<>> ELSE Head(entries).arg \o concat_args(Tail(entries))

AllDigits(token) == token # "" /\ \A i \in 1..Len(token) : InStr(Char(token, i), digits)

\* the digit tokens of the strings the spell checker was trained on
TrainedDigitTokens ==
    UNION {UNION {{t \in tokens_of(input_string) : AllDigits(t)}
                      : input_string \in Range(log[i].arg)}
               : i \in {j \in 1..Len(log) : log[j].cls = "SpellChecker"}}

----------------------------------------------------------------------------
(* C1 *)

AccessorOps ==
    {"get_tokens_for_n_gram", "get_full_strings_for_token", "get_count_for_token",
     "get_counts_for_tokens"}

TokenizerAccessorOps == {"get_tokens_for_n_gram", "get_full_strings_for_token"}

\* C1: on both adapters, each of the four read accessors raises RequiresTraining,
\* and nothing else, when no train_from_strings was called since construction or
\* since the last bust_cache (the tokenizer's bust_cache for the tokenizer's two).
C1_AccessorsRequireTraining ==
    /\ (ret.op \in AccessorOps /\ NeverTrained) => ret.exc = "RequiresTraining"
    /\ (ret.op \in TokenizerAccessorOps /\ TokenizerJustBusted)
           => ret.exc = "RequiresTraining"

----------------------------------------------------------------------------
(* C2 *)

\* C2: starting from an untrained backend, train_from_strings called on the pieces
\* of a corpus one after the other leaves the three indices as one call on the
\* whole corpus does.
C2_SplitTrainingEqualsOneCall ==
    /\ (Len(log) >= 2 /\ AllTrainsOf("SpellChecker"))
           => Store = SpellChecker_train_from_strings(backend, EmptyStore,
                          concat_args(log), min_n_gram_size)
    /\ (Len(log) >= 2 /\ AllTrainsOf("Tokenizer"))
           => Store = Tokenizer_train_from_strings(backend, EmptyStore,
                          concat_args(log), min_n_gram_size)

\* two spell-checker calls whose corpora share the token "ab" were made
C2_Witness ==
    /\ Len(log) = 2 /\ AllTrainsOf("SpellChecker")
    /\ log[1].arg = <<"ab ad">> /\ log[2].arg = <<"ab ad 42", "Ab!">>
    /\ FrequencyOf("ab") = 3

----------------------------------------------------------------------------
(* C3 *)

\* C3: correct_token returns the lowercased token, unchanged, when it is a key of
\* PrefixIndex.
C3_KnownPrefixUnchanged ==
    (ret.op = "correct_token" /\ lower(ret.arg) \in PrefixIndexKeys)
        => (ret.exc = "none" /\ ret.val = lower(ret.arg))

\* "a" is a prefix of frequency 0 with a counted word one edit away, and is returned
C3_Witness ==
    /\ ret.op = "correct_token" /\ ret.arg = "a" /\ "a" \in PrefixIndexKeys
    /\ FrequencyOf("a") = 0 /\ FrequencyOf("ab") > 0
    /\ ret.exc = "none" /\ ret.val = "a"

----------------------------------------------------------------------------
(* C4 *)

\* C4: on a trained model, guess_full_strings returns the empty list without
\* raising when no input token is a key of PrefixIndex, the empty token list
\* included.
C4_NoMatchGivesEmptyList ==
    (/\ ret.op = "guess_full_strings"
     /\ Trained
     /\ \A i \in 1..Len(ret.arg) : ret.arg[i] \notin PrefixIndexKeys)
        => (ret.exc = "none" /\ ret.val = <<>>)

----------------------------------------------------------------------------
(* C5 *)

\* C5: after spell-checker training, a token of digits only that occurs in a
\* trained string has frequency 0, is a key of PrefixIndex and of StringIndex,
\* and is returned unchanged by correct_token.
C5_DigitTokens ==
    Trained =>
        \A t \in TrainedDigitTokens :
            /\ FrequencyOf(t) = 0
            /\ t \in PrefixIndexKeys
            /\ t \in StringIndexKeys
            /\ (ret.op = "correct_token" /\ lower(ret.arg) = t)
                   => (ret.exc = "none" /\ ret.val = t)

\* correct_token("99") was called after the spell checker was trained on "99"
C5_Witness ==
    /\ Trained /\ "99" \in TrainedDigitTokens
    /\ ret.op = "correct_token" /\ ret.arg = "99" /\ ret.exc = "none" /\ ret.val = "99"

----------------------------------------------------------------------------
(* What a guess_full_strings call left in ret *)

GuessReturned == ret.op = "guess_full_strings" /\ ret.exc = "none"

\* the aggregated score of a source string in the call of ret
AggregatedScore(full_string) == combined_score(ret.locals.pairs, full_string, Len(ret.arg))

score_eq(a, b) == a[1] * b[2] = b[1] * a[2]

\* the distinct input tokens of the call that resolved to a vocabulary token of
\* full_string
ContributingInputTokens(full_string) ==
    {ret.arg[i] : i \in {j \in 1..Len(ret.arg) :
        \E p \in ret.locals.pairs :
            p[1] = full_string /\ p[2] \in get_tokens_for_n_gram(ret.arg[j], {}).val}}

\* the sum of the coverage scores of full_string
CoverageSum(full_string) ==
    <<sum_of_lengths({p[2] : p \in {q \in ret.locals.pairs : q[1] = full_string}}),
      Len(remove_spaces(full_string))>>

\* the entries of the sorted list that pass the length filter of an exact match
\* and the score threshold
Passing ==
    LET sorted == ret.locals.sorted
    IN  {i \in 1..Len(sorted) :
            /\ score_ge(sorted[i][2], ret.cfg.score_threshold)
            /\ score_is_one(sorted[1][2]) => Len(sorted[i][1]) >= Len(sorted[1][1])}

TopIsExactMatch == ret.locals.sorted # <<>> /\ score_is_one(ret.locals.sorted[1][2])

Min2(a, b) == IF a < b THEN a ELSE b

----------------------------------------------------------------------------
(* C6 *)

\* C6: the list guess_full_strings returns is in descending order of aggregated
\* score, and holds no source string twice.
C6_ResultOrderedByScore ==
    GuessReturned =>
        \A i, j \in 1..Len(ret.val) :
            i < j => /\ score_ge(AggregatedScore(ret.val[i]), AggregatedScore(ret.val[j]))
                     /\ ret.val[i] # ret.val[j]

\* a result of two strings or more, of which one scores strictly below another
C6_Witness ==
    /\ GuessReturned
    /\ \E i, j \in 1..Len(ret.val) :
           i < j /\ ~score_ge(AggregatedScore(ret.val[j]), AggregatedScore(ret.val[i]))

----------------------------------------------------------------------------
(* C7 *)

\* C7: the aggregated score of a source string is the sum of its coverage scores
\* times (distinct contributing input tokens / input tokens), a weight that never
\* exceeds 1.
C7_WeightIsFractionOfInputTokens ==
    GuessReturned =>
        \A i \in 1..Len(ret.locals.sorted) :
            LET full_string == ret.locals.sorted[i][1]
                score       == ret.locals.sorted[i][2]
                coverage    == CoverageSum(full_string)
                contributed == Cardinality(ContributingInputTokens(full_string))
            IN  /\ score_eq(score, <<coverage[1] * contributed,
                                     coverage[2] * Len(ret.arg)>>)
                /\ score_ge(coverage, score)

----------------------------------------------------------------------------
(* C8 *)

\* C8, as claimed: when no more than min_results candidates pass the threshold,
\* the result is exactly min_results entries from the head of the unfiltered
\* sorted list.
C8_ExactlyMinResults ==
    (GuessReturned /\ Cardinality(Passing) <= ret.cfg.min_results)
        => /\ Len(ret.val) = ret.cfg.min_results
           /\ \A i \in 1..Len(ret.val) : ret.val[i] = ret.locals.sorted[i][1]

\* C8, amended: when no more than min_results candidates pass the threshold, the
\* result is the head of the unfiltered sorted list cut to min_results entries and
\* to max_results entries: all of the list when it is shorter than both.
C8_HeadOfUnfilteredList ==
    (GuessReturned /\ Cardinality(Passing) <= ret.cfg.min_results)
        => LET n == Min2(Min2(ret.cfg.min_results, ret.cfg.max_results),
                         Len(ret.locals.sorted))
           IN  ret.val = [i \in 1..n |-> ret.locals.sorted[i][1]]

\* a list longer than min_results was cut to min_results entries, the last of
\* them below the threshold
C8_Witness ==
    /\ GuessReturned /\ Cardinality(Passing) <= ret.cfg.min_results
    /\ Len(ret.locals.sorted) > ret.cfg.min_results
    /\ Len(ret.val) = ret.cfg.min_results
    /\ Len(ret.val) \notin Passing

----------------------------------------------------------------------------
(* C9 *)

\* C9, as claimed: when the top candidate scores exactly 1, no string shorter
\* than it is returned.
C9_NoStringShorterThanExactMatch ==
    (GuessReturned /\ TopIsExactMatch)
        => \A i \in 1..Len(ret.val) : Len(ret.val[i]) >= Len(ret.locals.sorted[1][1])

\* C9, amended: when the top candidate scores exactly 1 and more than min_results
\* of the candidates at least as long as it pass the threshold, no string shorter
\* than it is returned.
C9_NoShorterWhenEnoughPass ==
    (GuessReturned /\ TopIsExactMatch /\ Cardinality(Passing) > ret.cfg.min_results)
        => \A i \in 1..Len(ret.val) : Len(ret.val[i]) >= Len(ret.locals.sorted[1][1])

\* a candidate shorter than the exact match passed the threshold, and was dropped
C9_Witness ==
    /\ GuessReturned /\ TopIsExactMatch /\ Cardinality(Passing) > ret.cfg.min_results
    /\ Len(ret.val) < ret.cfg.max_results
    /\ \E i \in 1..Len(ret.locals.sorted) :
           /\ Len(ret.locals.sorted[i][1]) < Len(ret.locals.sorted[1][1])
           /\ score_ge(ret.locals.sorted[i][2], ret.cfg.score_threshold)
           /\ \A j \in 1..Len(ret.val) : ret.val[j] # ret.locals.sorted[i][1]

----------------------------------------------------------------------------
(* C10 *)

\* guess_full_strings(["hello", "world"]) was called with the default
\* configuration on a model trained on the scenario corpus alone
ScenarioB ==
    /\ Len(log) = 1 /\ IsTrain(log[1]) /\ log[1].arg = ScenarioCorpus
    /\ ret.op = "guess_full_strings"
    /\ ret.arg = <<"hello", "world">>
    /\ ret.cfg = DefaultConfig

\* C10, as claimed: the call returns ["hey there world", "hello commrades"].
C10_ScenarioBAsClaimed ==
    ScenarioB => (ret.exc = "none" /\ ret.val = <<"hey there world", "hello commrades">>)

\* C10, amended: the call returns ["hello world", "hey there world",
\* "hello commrades"].
C10_ScenarioBResult ==
    ScenarioB => (/\ ret.exc = "none"
                  /\ ret.val = <<"hello world", "hey there world", "hello commrades">>)

\* the call of the scenario was made and returned
C10_Witness == ScenarioB /\ ret.exc = "none" /\ Len(ret.val) = 3

----------------------------------------------------------------------------
(* C11 *)

\* the candidates one edit away from token that FrequencyIndex counts
KnownOneEditAway(token) == {c \in _possible_typos(token) : FrequencyOf(c) # 0}

\* correct_token was called with a token that is no PrefixIndex key, has frequency
\* 0, and has a counted candidate one edit away
OneEditCase ==
    /\ ret.op = "correct_token"
    /\ lower(ret.arg) \notin PrefixIndexKeys
    /\ FrequencyOf(lower(ret.arg)) = 0
    /\ KnownOneEditAway(lower(ret.arg)) # {}

ReturnedBestOneEditAway ==
    /\ ret.exc = "none"
    /\ ret.val \in KnownOneEditAway(lower(ret.arg))
    /\ \A d \in KnownOneEditAway(lower(ret.arg)) : FrequencyOf(d) <= FrequencyOf(ret.val)

\* C11, as claimed: for a token that is no PrefixIndex key and has frequency 0,
\* with a counted candidate one edit away, correct_token returns a candidate one
\* edit away of maximal frequency among them.
C11_BestOneEditAway == OneEditCase => ReturnedBestOneEditAway

\* C11, amended: on a model whose PrefixIndex is not empty, for a token that is no
\* PrefixIndex key and has frequency 0, with a counted candidate one edit away,
\* correct_token returns a candidate one edit away of maximal frequency among
\* them, even when a candidate two edits away has a higher frequency.
C11_BestOneEditAwayWhenTrained ==
    (OneEditCase /\ PrefixIndexKeys # {}) => ReturnedBestOneEditAway

\* "cd" is corrected to "ad", one edit away, though "ab", two edits away and not
\* one, has the higher frequency
C11_Witness ==
    /\ OneEditCase /\ PrefixIndexKeys # {}
    /\ ret.arg = "cd" /\ ret.cfg.typo_deviations = 2
    /\ ret.exc = "none" /\ ret.val = "ad"
    /\ "ab" \notin _possible_typos("cd")
    /\ "ab" \in all_deviations_of(_possible_typos("cd"), _possible_typos("cd"), 1)
    /\ FrequencyOf("ab") > FrequencyOf("ad")

----------------------------------------------------------------------------
(* C12 *)

\* the candidates within typo_deviations edits of token that FrequencyIndex counts
KnownWithinDeviations(token, typo_deviations) ==
    LET deviations     == _possible_typos(token)
        all_deviations ==
            IF typo_deviations = 2 /\ token \in MemoWords
            THEN (CHOOSE m \in all_deviations_memo : m[1] = token)[2]
            ELSE all_deviations_of(deviations, deviations, typo_deviations - 1)
    IN  {c \in all_deviations : FrequencyOf(c) # 0}

\* the spell checker's train_from_strings was called, and nothing was reset since
SpellCheckerTrained == Trained /\ \E i \in 1..Len(log) : log[i].cls = "SpellChecker"

\* correct_token was called on a trained spell checker with a token that is no
\* PrefixIndex key, has frequency 0 and no counted candidate within the deviations
NoCandidateCase ==
    /\ ret.op = "correct_token"
    /\ SpellCheckerTrained
    /\ lower(ret.arg) \notin PrefixIndexKeys
    /\ FrequencyOf(lower(ret.arg)) = 0
    /\ KnownWithinDeviations(lower(ret.arg), ret.cfg.typo_deviations) = {}

\* C12: once the spell checker's train_from_strings was called, with any corpus,
\* correct_token returns the lowercased token and raises nothing when the token is
\* no PrefixIndex key, has frequency 0 and no counted candidate within the
\* configured deviations.
C12_UncorrectableReturnedUnchanged ==
    NoCandidateCase => (ret.exc = "none" /\ ret.val = lower(ret.arg))

----------------------------------------------------------------------------
(* C13 *)

\* the set PrefixIndex holds for an n-gram, empty when it holds none
PrefixIndexOf(n_gram) ==
    IF backend = "dict"
    THEN (IF "n_gram_to_tokens" \in DOMAIN cls_cache
          THEN dict_get(cls_cache["n_gram_to_tokens"], n_gram, {}) ELSE {})
    ELSE smembers(redis, "n_gram:" \o n_gram)

\* the set StringIndex holds for a token, empty when it holds none
StringIndexOf(token) ==
    IF backend = "dict"
    THEN (IF "token_to_full_string" \in DOMAIN cls_cache
          THEN dict_get(cls_cache["token_to_full_string"], token, {}) ELSE {})
    ELSE smembers(redis, "token:" \o token)

\* the keys of FrequencyIndex
FrequencyIndexKeys ==
    IF backend = "dict"
    THEN (IF "token_to_count" \in DOMAIN cls_cache
          THEN DOMAIN cls_cache["token_to_count"] ELSE {})
    ELSE {SubSeq(k, 7, Len(k)) : k \in {x \in DOMAIN redis : SubSeq(x, 1, 6) = "count:"}}

\* a step in which no index loses a key, a member of a set, or a count
IndicesGrow ==
    /\ \A k \in PrefixIndexKeys :
           k \in PrefixIndexKeys' /\ PrefixIndexOf(k) \subseteq PrefixIndexOf(k)'
    /\ \A k \in StringIndexKeys :
           k \in StringIndexKeys' /\ StringIndexOf(k) \subseteq StringIndexOf(k)'
    /\ \A k \in FrequencyIndexKeys :
           k \in FrequencyIndexKeys' /\ FrequencyOf(k) <= FrequencyOf(k)'

\* C13: every train_from_strings call leaves each PrefixIndex and StringIndex set
\* a superset of what it was and each FrequencyIndex count no smaller, and removes
\* no key; no step other than a bust_cache removes anything.
C13_IndicesOnlyGrow ==
    [][ret'.op # "bust_cache" => IndicesGrow]_vars

\* a second train_from_strings added to sets and a count the first had made
C13_Witness ==
    /\ Len(log) = 2 /\ AllTrainsOf("SpellChecker")
    /\ log[1].arg = <<"ab ad 42", "Ab!">> /\ log[2].arg = <<"ab ad">>
    /\ ret.op = "train_from_strings"
    /\ StringIndexOf("ab") = {"ab ad 42", "ab!", "ab ad"}
    /\ "42" \in StringIndexKeys
    /\ FrequencyOf("ab") = 3

----------------------------------------------------------------------------
(* C14 *)

\* every vocabulary token a PrefixIndex set holds has a source string
ResolvedTokensHaveStrings ==
    \A k \in PrefixIndexKeys : \A token \in PrefixIndexOf(k) : StringIndexOf(token) # {}

\* C14: while train_from_strings calls run and no bust_cache does, every
\* vocabulary token in a PrefixIndex set has a non-empty StringIndex entry in
\* every state a reader can observe.
C14_PrefixTokensHaveStrings == ResolvedTokensHaveStrings

----------------------------------------------------------------------------
(* C15 *)

AllStored == \A p \in Trainers : trainers[p].pc = "done"

\* the storage after the call of p and then the call of q, one after the other
Sequentially(p, q) ==
    SpellChecker_train_from_strings(
        backend,
        SpellChecker_train_from_strings(backend, EmptyStore, trainers[p].arg,
                                        min_n_gram_size),
        trainers[q].arg, min_n_gram_size)

\* C15: with every store step atomic, once two concurrent train_from_strings calls
\* have both completed, the three indices are those of the two calls run one after
\* the other, in either order, however the store steps interleaved.
C15_ConcurrentEqualsSequential ==
    (store_steps_atomic /\ AllStored)
        => (Store = Sequentially("A", "B") /\ Store = Sequentially("B", "A"))

\* both calls completed, and B made its three stores between A's PrefixIndex store
\* and A's FrequencyIndex store: the words of A were in PrefixIndex and uncounted
\* all the while
C15_Witness ==
    /\ store_steps_atomic /\ AllStored
    /\ trainers["A"].arg = <<"ab ad">> /\ trainers["B"].arg = <<"ab ad 42", "Ab!">>
    /\ [i \in 1..Len(log) |-> log[i].by] = <<"A", "A", "B", "B", "B", "A">>
    /\ FrequencyOf("ab") = 3
    /\ StringIndexOf("ab") = {"ab ad", "ab ad 42", "ab!"}

====
